---------------------------- MODULE Spec2Model ----------------------------
(***************************************************************************)
(* Model of ReservationServiceGrpcTransport, the gRPC transport of the     *)
(* BigQuery Reservation client                                              *)
(* (google/cloud/bigquery/reservation_v1/services/reservation_service/     *)
(* transports/grpc.py).                                                     *)
(*                                                                         *)
(* One transport instance is modelled.  Its constructor is one action;     *)
(* the property accessors (grpc_channel and the per-method stub            *)
(* accessors) are executed by caller threads one Python statement part at  *)
(* a time, one step per read or write of an instance attribute            *)
(* (membership test, hasattr test, channel creation and store, read of     *)
(* the channel, stub construction and store, final read), because the      *)
(* code takes no lock and callers may interleave between those accesses.   *)
(*                                                                         *)
(* Python strings that the code inspects (host, api_mtls_endpoint) are     *)
(* sequences of one-character strings.  Python objects with identity       *)
(* (channels, stubs) are records carrying a fresh id.                      *)
(***************************************************************************)
EXTENDS Integers, Sequences, FiniteSets, TLC

(***************************************************************************)
(* Bounds of the model.                                                    *)
(***************************************************************************)
\* number of caller threads sharing the instance
NumThreads == 2

\* accessor calls begun in one behaviour
MaxCalls == 3

\* injected create_channel failures in accessor calls of one behaviour
MaxFailures == 1

\* number of distinct method accessors exercised in one behaviour
NumExercised == 2

Threads == 1..NumThreads

(***************************************************************************)
(* Values of the constructor arguments.                                    *)
(***************************************************************************)
\* Python None / False for the credentials argument
NoCredentials == "None"

FalseCredentials == "False"

CredentialsArgs == {NoCredentials, "credA"}

\* channel=None
NoChannel == [kind |-> "none"]

\* a channel object built by the caller
SuppliedChannel == [kind |-> "supplied", id |-> 0]

ChannelArgs == {NoChannel, SuppliedChannel}

\* api_mtls_endpoint=None (falsy, like the empty string)
NoEndpoint == << >>

\* "m", "m:8", "[::1]"
EndpointArgs ==
    { NoEndpoint,
      <<"m">>,
      <<"m", ":", "8">>,
      <<"[", ":", ":", "1", "]">> }

\* "svc", "svc:9"
HostArgs == { <<"s", "v", "c">>, <<"s", "v", "c", ":", "9">> }

\* client_cert_source=None, or a callback returning (cert, key)
NoCertSource == "None"

CertSourceArgs == {NoCertSource, "callback"}

ConstructorArgs ==
    [host : HostArgs,
     credentials : CredentialsArgs,
     channel : ChannelArgs,
     api_mtls_endpoint : EndpointArgs,
     client_cert_source : CertSourceArgs]

(***************************************************************************)
(* Class-level data.                                                       *)
(***************************************************************************)
\* ReservationServiceTransport.AUTH_SCOPES (base class)
AUTH_SCOPES == {"https://www.googleapis.com/auth/bigquery",
                "https://www.googleapis.com/auth/cloud-platform"}

\* one entry per stub accessor property, in source order
MethodRegistry ==
    << [key |-> "create_reservation",
        path |-> "/google.cloud.bigquery.reservation.v1.ReservationService/CreateReservation",
        request_serializer |-> "gcbr_reservation.CreateReservationRequest.serialize",
        response_deserializer |-> "gcbr_reservation.Reservation.deserialize"],
       [key |-> "list_reservations",
        path |-> "/google.cloud.bigquery.reservation.v1.ReservationService/ListReservations",
        request_serializer |-> "reservation.ListReservationsRequest.serialize",
        response_deserializer |-> "reservation.ListReservationsResponse.deserialize"],
       [key |-> "get_reservation",
        path |-> "/google.cloud.bigquery.reservation.v1.ReservationService/GetReservation",
        request_serializer |-> "reservation.GetReservationRequest.serialize",
        response_deserializer |-> "reservation.Reservation.deserialize"],
       [key |-> "delete_reservation",
        path |-> "/google.cloud.bigquery.reservation.v1.ReservationService/DeleteReservation",
        request_serializer |-> "reservation.DeleteReservationRequest.serialize",
        response_deserializer |-> "empty.Empty.FromString"],
       [key |-> "update_reservation",
        path |-> "/google.cloud.bigquery.reservation.v1.ReservationService/UpdateReservation",
        request_serializer |-> "gcbr_reservation.UpdateReservationRequest.serialize",
        response_deserializer |-> "gcbr_reservation.Reservation.deserialize"],
       [key |-> "create_capacity_commitment",
        path |-> "/google.cloud.bigquery.reservation.v1.ReservationService/CreateCapacityCommitment",
        request_serializer |-> "reservation.CreateCapacityCommitmentRequest.serialize",
        response_deserializer |-> "reservation.CapacityCommitment.deserialize"],
       [key |-> "list_capacity_commitments",
        path |-> "/google.cloud.bigquery.reservation.v1.ReservationService/ListCapacityCommitments",
        request_serializer |-> "reservation.ListCapacityCommitmentsRequest.serialize",
        response_deserializer |-> "reservation.ListCapacityCommitmentsResponse.deserialize"],
       [key |-> "get_capacity_commitment",
        path |-> "/google.cloud.bigquery.reservation.v1.ReservationService/GetCapacityCommitment",
        request_serializer |-> "reservation.GetCapacityCommitmentRequest.serialize",
        response_deserializer |-> "reservation.CapacityCommitment.deserialize"],
       [key |-> "delete_capacity_commitment",
        path |-> "/google.cloud.bigquery.reservation.v1.ReservationService/DeleteCapacityCommitment",
        request_serializer |-> "reservation.DeleteCapacityCommitmentRequest.serialize",
        response_deserializer |-> "empty.Empty.FromString"],
       [key |-> "update_capacity_commitment",
        path |-> "/google.cloud.bigquery.reservation.v1.ReservationService/UpdateCapacityCommitment",
        request_serializer |-> "reservation.UpdateCapacityCommitmentRequest.serialize",
        response_deserializer |-> "reservation.CapacityCommitment.deserialize"],
       [key |-> "split_capacity_commitment",
        path |-> "/google.cloud.bigquery.reservation.v1.ReservationService/SplitCapacityCommitment",
        request_serializer |-> "reservation.SplitCapacityCommitmentRequest.serialize",
        response_deserializer |-> "reservation.SplitCapacityCommitmentResponse.deserialize"],
       [key |-> "merge_capacity_commitments",
        path |-> "/google.cloud.bigquery.reservation.v1.ReservationService/MergeCapacityCommitments",
        request_serializer |-> "reservation.MergeCapacityCommitmentsRequest.serialize",
        response_deserializer |-> "reservation.CapacityCommitment.deserialize"],
       [key |-> "create_assignment",
        path |-> "/google.cloud.bigquery.reservation.v1.ReservationService/CreateAssignment",
        request_serializer |-> "reservation.CreateAssignmentRequest.serialize",
        response_deserializer |-> "reservation.Assignment.deserialize"],
       [key |-> "list_assignments",
        path |-> "/google.cloud.bigquery.reservation.v1.ReservationService/ListAssignments",
        request_serializer |-> "reservation.ListAssignmentsRequest.serialize",
        response_deserializer |-> "reservation.ListAssignmentsResponse.deserialize"],
       [key |-> "delete_assignment",
        path |-> "/google.cloud.bigquery.reservation.v1.ReservationService/DeleteAssignment",
        request_serializer |-> "reservation.DeleteAssignmentRequest.serialize",
        response_deserializer |-> "empty.Empty.FromString"],
       [key |-> "search_assignments",
        path |-> "/google.cloud.bigquery.reservation.v1.ReservationService/SearchAssignments",
        request_serializer |-> "reservation.SearchAssignmentsRequest.serialize",
        response_deserializer |-> "reservation.SearchAssignmentsResponse.deserialize"],
       [key |-> "move_assignment",
        path |-> "/google.cloud.bigquery.reservation.v1.ReservationService/MoveAssignment",
        request_serializer |-> "reservation.MoveAssignmentRequest.serialize",
        response_deserializer |-> "reservation.Assignment.deserialize"],
       [key |-> "get_bi_reservation",
        path |-> "/google.cloud.bigquery.reservation.v1.ReservationService/GetBiReservation",
        request_serializer |-> "reservation.GetBiReservationRequest.serialize",
        response_deserializer |-> "reservation.BiReservation.deserialize"],
       [key |-> "update_bi_reservation",
        path |-> "/google.cloud.bigquery.reservation.v1.ReservationService/UpdateBiReservation",
        request_serializer |-> "reservation.UpdateBiReservationRequest.serialize",
        response_deserializer |-> "reservation.BiReservation.deserialize"] >>

NumMethods == Len(MethodRegistry)

Methods == 1..NumMethods

(***************************************************************************)
(* State.                                                                  *)
(***************************************************************************)
VARIABLES
    args,            \* the keyword arguments the constructor is called with
    exercised,       \* the method accessors the callers use in this behaviour
    callers,         \* "concurrent", or "sequential": one call at a time
    phase,           \* "new", "ready" (constructed) or "failed" (__init__ raised)
    _grpc_channel,   \* the instance attribute, Unset while it does not exist
    _host,           \* recorded by the base constructor
    _credentials,    \* recorded by the base constructor
    _stubs,          \* the stub cache: key -> stub
    frame,           \* per thread: position and locals of its accessor call
    channelLog,      \* channels created by the transport, in creation order
    createAttempts,  \* calls of grpc_helpers.create_channel made by the transport
    stubLog,         \* stubs built by unary_unary, in construction order
    certCalls,       \* invocations of client_cert_source
    returns,         \* what the stub accessors returned, in return order
    chanReturns,     \* what evaluations of grpc_channel returned (a set)
    errors,          \* exceptions that reached a caller
    nCalls,          \* accessor calls begun
    nFailures,       \* injected lazy create_channel failures
    invocations      \* calls of returned stubs: exchanges made, result (a set)

vars == << args, exercised, callers, phase, _grpc_channel, _host,
           _credentials, _stubs,
           frame, channelLog, createAttempts, stubLog, certCalls,
           returns, chanReturns, errors, nCalls, nFailures, invocations >>

\* chosen before the constructor runs and never changed
inputVars == << args, exercised, callers >>

\* the attributes of the instance
instanceVars == << phase, _grpc_channel, _host, _credentials, _stubs >>

\* the attribute does not exist (hasattr is false)
Unset == [kind |-> "unset"]

NoHost == << >>

IdleFrame ==
    [pc |-> "idle", op |-> 0, chan |-> Unset, late |-> FALSE,
     created |-> FALSE]

\* op of a frame: 0 is the grpc_channel property, m > 0 the accessor of method m
GrpcChannelOp == 0

(***************************************************************************)
(* Pure helpers.                                                           *)
(***************************************************************************)
\* ":" in s
HasColon(s) == \E i \in DOMAIN s : s[i] = ":"

\* the host derived from api_mtls_endpoint
MtlsHost(api_mtls_endpoint) ==
    IF HasColon(api_mtls_endpoint)
    THEN api_mtls_endpoint
    ELSE api_mtls_endpoint \o <<":", "4", "4", "3">>

\* grpc.ssl_channel_credentials(certificate_chain=cert, private_key=key)
\* with (cert, key) = client_cert_source()
CallbackSslCredentials ==
    [source |-> "client_cert_source",
     certificate_chain |-> "cert", private_key |-> "key"]

\* SslCredentials().ssl_credentials
DefaultSslCredentials == [source |-> "default"]

NoSslCredentials == [source |-> "none"]

\* the callback is called whether or not one was supplied
CertSourceCalls_Always(client_cert_source) == 1

\* how often the mutual-TLS branch calls client_cert_source()
CertSourceCalls(client_cert_source) ==
    IF client_cert_source # NoCertSource THEN 1 ELSE 0

\* the SSL credentials of the mutual-TLS branch
MtlsSslCredentials(client_cert_source) ==
    IF client_cert_source # NoCertSource
    THEN CallbackSslCredentials
    ELSE DefaultSslCredentials

\* the channel the constructor built is not kept on the instance
MtlsAssigned_Dropped(outcome, channel) == Unset

\* the assignment is made although the right-hand side raised
MtlsAssigned_DespiteError(outcome, channel) == channel

\* self._grpc_channel after the statement self._grpc_channel =
\* grpc_helpers.create_channel(...) of the mutual-TLS branch: assigned only
\* when nothing before it and the call itself raised
MtlsAssigned(outcome, channel) ==
    IF outcome = "ok" THEN channel ELSE Unset

\* the object grpc_helpers.create_channel returns
NewChannel(id, host, credentials, ssl_credentials, scopes) ==
    [kind |-> "created", id |-> id, target |-> host,
     credentials |-> credentials, ssl_credentials |-> ssl_credentials,
     scopes |-> scopes]

\* the scopes keyword is not passed on
create_channel_NoScopes(id, host, credentials) ==
    NewChannel(id, host, credentials, NoSslCredentials, {})

\* the credentials keyword is not passed on
create_channel_NoCredentials(id, host, credentials) ==
    NewChannel(id, host, NoCredentials, NoSslCredentials, AUTH_SCOPES)

\* the classmethod create_channel(host, credentials=credentials)
create_channel(id, host, credentials) ==
    NewChannel(id, host, credentials, NoSslCredentials, AUTH_SCOPES)

\* a copied accessor that kept the decoder of the first one
unary_unary_FirstDecoder(id, channel, m) ==
    [id |-> id, channel |-> channel,
     path |-> MethodRegistry[m].path,
     request_serializer |-> MethodRegistry[m].request_serializer,
     response_deserializer |-> MethodRegistry[1].response_deserializer]

\* channel.unary_unary(path, request_serializer=..., response_deserializer=...)
unary_unary(id, channel, m) ==
    [id |-> id, channel |-> channel,
     path |-> MethodRegistry[m].path,
     request_serializer |-> MethodRegistry[m].request_serializer,
     response_deserializer |-> MethodRegistry[m].response_deserializer]

\* copied accessors that all kept the key of the first one
StubKey_FirstKey(m) == MethodRegistry[1].key

\* the key under which the accessor of method m caches its stub
StubKey(m) == MethodRegistry[m].key

\* what ReservationServiceTransport.__init__ records
BaseInit(host, credentials) == [host |-> host, credentials |-> credentials]

\* the elif test is lost: every call without a channel builds one eagerly
Branch_NoEndpointTest(a) ==
    IF a.channel # NoChannel THEN "channel" ELSE "mtls"

\* the two tests are swapped: the endpoint is looked at before the channel
Branch_MtlsFirst(a) ==
    IF a.api_mtls_endpoint # NoEndpoint THEN "mtls"
    ELSE IF a.channel # NoChannel THEN "channel"
    ELSE "lazy"

\* which branch of __init__ the arguments select
Branch(a) ==
    IF a.channel # NoChannel THEN "channel"
    ELSE IF a.api_mtls_endpoint # NoEndpoint THEN "mtls"
    ELSE "lazy"

\* the methods of a window of NumExercised registry entries starting at first
Window(first) ==
    { ((first - 1 + i) % NumMethods) + 1 : i \in 0..(NumExercised - 1) }

\* windows that together cover the registry
WindowStarts ==
    { 1 + NumExercised * i : i \in 0..((NumMethods - 1) \div NumExercised) }

\* the defaults of __init__ except for a host and credentials
LazyArgs ==
    [host |-> <<"s", "v", "c">>,
     credentials |-> "credA",
     channel |-> NoChannel,
     api_mtls_endpoint |-> NoEndpoint,
     client_cert_source |-> NoCertSource]

\* every argument combination with the first methods of the registry, and
\* every method of the registry with the host-and-credentials arguments
InitialChoices ==
    (ConstructorArgs \X {1}) \cup ({LazyArgs} \X WindowStarts)

(***************************************************************************)
(* Initial state: the arguments are chosen, __init__ has not run yet.      *)
(***************************************************************************)
Start ==
    /\ \E c \in InitialChoices :
         /\ args = c[1]
         /\ exercised = Window(c[2])
    /\ phase = "new"
    /\ _grpc_channel = Unset
    /\ _host = NoHost
    /\ _credentials = NoCredentials
    /\ _stubs = Unset
    /\ frame = [t \in Threads |-> IdleFrame]
    /\ channelLog = << >>
    /\ createAttempts = 0
    /\ stubLog = << >>
    /\ certCalls = 0
    /\ returns = << >>
    /\ chanReturns = {}
    /\ errors = << >>
    /\ nCalls = 0
    /\ nFailures = 0
    /\ invocations = {}

\* callers may interleave freely
Init == Start /\ callers = "concurrent"

\* calls are made one after the other
InitSeq == Start /\ callers = "sequential"

(***************************************************************************)
(* __init__.  outcome selects what the collaborators do: "ok",             *)
(* "cert_error" (client_cert_source or SslCredentials raises) or           *)
(* "channel_error" (grpc_helpers.create_channel raises).                   *)
(***************************************************************************)
ConstructChannelBranch ==
    /\ phase = "new"
    /\ Branch(args) = "channel"
    /\ LET credentials == FalseCredentials
           base == BaseInit(args.host, credentials)
       IN  /\ _grpc_channel' = args.channel
           /\ _host' = base.host
           /\ _credentials' = base.credentials
    /\ _stubs' = << >>
    /\ phase' = "ready"
    /\ UNCHANGED << inputVars, frame, channelLog, createAttempts, stubLog,
                    certCalls, returns, chanReturns, errors, nCalls, nFailures,
                    invocations >>

ConstructMtlsBranch ==
    /\ phase = "new"
    /\ Branch(args) = "mtls"
    /\ \E outcome \in {"ok", "cert_error", "channel_error"} :
         LET host == MtlsHost(args.api_mtls_endpoint)
             ssl_credentials == MtlsSslCredentials(args.client_cert_source)
             channel == NewChannel(Len(channelLog) + 1, host, args.credentials,
                                   ssl_credentials, AUTH_SCOPES)
             base == BaseInit(host, args.credentials)
         IN  /\ certCalls' =
                    certCalls + CertSourceCalls(args.client_cert_source)
             /\ createAttempts' = IF outcome = "cert_error"
                                  THEN createAttempts ELSE createAttempts + 1
             /\ IF outcome = "ok"
                THEN /\ _grpc_channel' = MtlsAssigned(outcome, channel)
                     /\ channelLog' = Append(channelLog, channel)
                     /\ _host' = base.host
                     /\ _credentials' = base.credentials
                     /\ _stubs' = << >>
                     /\ phase' = "ready"
                     /\ errors' = errors
                ELSE /\ phase' = "failed"
                     /\ errors' = Append(errors,
                            [op |-> -1, error |-> outcome])
                     /\ _grpc_channel' = MtlsAssigned(outcome, channel)
                     /\ UNCHANGED << channelLog, _host, _credentials,
                                     _stubs >>
    /\ UNCHANGED << inputVars, frame, stubLog, returns, chanReturns,
                    nCalls, nFailures, invocations >>

ConstructLazyBranch ==
    /\ phase = "new"
    /\ Branch(args) = "lazy"
    /\ LET base == BaseInit(args.host, args.credentials)
       IN  /\ _host' = base.host
           /\ _credentials' = base.credentials
    /\ _stubs' = << >>
    /\ phase' = "ready"
    /\ UNCHANGED << inputVars, _grpc_channel, frame, channelLog,
                    createAttempts, stubLog, certCalls, returns,
                    chanReturns, errors, nCalls, nFailures, invocations >>

Construct ==
    \/ ConstructChannelBranch
    \/ ConstructMtlsBranch
    \/ ConstructLazyBranch

(***************************************************************************)
(* The grpc_channel property, one part of a statement per step.            *)
(***************************************************************************)
\* a channel created by the transport has already been stored on the instance
CreationCompleted == _grpc_channel.kind = "created"

\* the hasattr test is lost: every evaluation creates a channel
EnterGrpcChannel_AlwaysCreate(f) ==
    [f EXCEPT !.pc = "chan_create", !.late = CreationCompleted]

\* "if not hasattr(self, '_grpc_channel')": where the evaluation goes next
EnterGrpcChannel(f) ==
    [f EXCEPT !.pc = IF _grpc_channel = Unset THEN "chan_create"
                     ELSE "chan_return",
              !.late = CreationCompleted]

\* no other call is in progress
Alone(t) == \A u \in Threads \ {t} : frame[u].pc = "idle"

\* thread t may begin a call now
MayCall(t) ==
    /\ frame[t].pc = "idle"
    /\ callers = "sequential" => Alone(t)

\* a caller reads transport.grpc_channel
GrpcChannelCall(t) ==
    /\ phase = "ready"
    /\ MayCall(t)
    /\ nCalls < MaxCalls
    /\ nCalls' = nCalls + 1
    /\ frame' = [frame EXCEPT
                   ![t] = EnterGrpcChannel([IdleFrame EXCEPT !.op = GrpcChannelOp])]
    /\ UNCHANGED << inputVars, instanceVars, channelLog, createAttempts,
                    stubLog, certCalls, returns, chanReturns, errors,
                    nFailures, invocations >>

\* self._grpc_channel = self.create_channel(self._host,
\*                                           credentials=self._credentials)
ChanCreateOk(t) ==
    /\ frame[t].pc = "chan_create"
    /\ LET channel == create_channel(Len(channelLog) + 1, _host, _credentials)
       IN  /\ channelLog' = Append(channelLog, channel)
           /\ _grpc_channel' = channel
    /\ frame' = [frame EXCEPT ![t].created = TRUE, ![t].pc = "chan_return"]
    /\ createAttempts' = createAttempts + 1
    /\ UNCHANGED << inputVars, phase, _host, _credentials, _stubs,
                    stubLog, certCalls, returns, chanReturns, errors, nCalls,
                    nFailures, invocations >>

\* the exception is swallowed: the property goes on to its return statement
RaisedFrame_Swallowed(f) == [f EXCEPT !.pc = "chan_return"]

\* the frame of a call in which self.create_channel(...) raised: nothing
\* catches the exception, so the property and the accessor are left
RaisedFrame(f) == IdleFrame

\* self.create_channel(...) raises: the exception leaves the property and
\* the accessor that evaluated it
ChanCreateRaise(t) ==
    /\ frame[t].pc = "chan_create"
    /\ nFailures < MaxFailures
    /\ nFailures' = nFailures + 1
    /\ createAttempts' = createAttempts + 1
    /\ errors' = Append(errors, [op |-> frame[t].op,
                                 error |-> "channel_error"])
    /\ frame' = [frame EXCEPT ![t] = RaisedFrame(frame[t])]
    /\ UNCHANGED << inputVars, instanceVars, channelLog, stubLog,
                    certCalls, returns, chanReturns, nCalls, invocations >>

\* return self._grpc_channel
ChanReturn(t) ==
    /\ frame[t].pc = "chan_return"
    /\ chanReturns' = chanReturns \cup
                         { [op |-> frame[t].op,
                            val |-> _grpc_channel,
                            late |-> frame[t].late,
                            created |-> frame[t].created] }
    /\ frame' = [frame EXCEPT
                   ![t] = IF frame[t].op = GrpcChannelOp
                          THEN IdleFrame
                          ELSE [frame[t] EXCEPT !.chan = _grpc_channel,
                                                !.pc = "stub_make"]]
    /\ UNCHANGED << inputVars, instanceVars, channelLog, createAttempts,
                    stubLog, certCalls, returns, errors, nCalls,
                    nFailures, invocations >>

(***************************************************************************)
(* The stub accessor of method m, one part of a statement per step.        *)
(***************************************************************************)
\* the cache is never consulted
InStubs_Never(m) == FALSE

\* "<method>" in self._stubs
InStubs(m) == StubKey(m) \in DOMAIN _stubs

\* a caller reads transport.<method>: 'if "<method>" not in self._stubs'
StubCall(t, m) ==
    /\ phase = "ready"
    /\ MayCall(t)
    /\ nCalls < MaxCalls
    /\ nCalls' = nCalls + 1
    /\ frame' = [frame EXCEPT
                   ![t] = [IdleFrame EXCEPT
                             !.op = m,
                             !.pc = IF InStubs(m)
                                    THEN "stub_return" ELSE "stub_miss"]]
    /\ UNCHANGED << inputVars, instanceVars, channelLog, createAttempts,
                    stubLog, certCalls, returns, chanReturns, errors,
                    nFailures, invocations >>

\* cache miss: the right-hand side starts by evaluating self.grpc_channel
StubMiss(t) ==
    /\ frame[t].pc = "stub_miss"
    /\ frame' = [frame EXCEPT ![t] = EnterGrpcChannel(frame[t])]
    /\ UNCHANGED << inputVars, instanceVars, channelLog, createAttempts,
                    stubLog, certCalls, returns, chanReturns, errors,
                    nCalls, nFailures, invocations >>

\* the cache is replaced by a dict that holds the new entry only
DictSet_Fresh(d, k, v) == [x \in {k} |-> v]

\* d[k] = v on a Python dict
DictSet(d, k, v) ==
    [x \in (DOMAIN d) \cup {k} |-> IF x = k THEN v ELSE d[x]]

\* self._stubs["<method>"] = <channel>.unary_unary(path, request_serializer,
\*                                                response_deserializer)
StubStore(t) ==
    /\ frame[t].pc = "stub_make"
    /\ LET stub == unary_unary(Len(stubLog) + 1, frame[t].chan, frame[t].op)
       IN  /\ stubLog' = Append(stubLog, stub)
           /\ _stubs' = DictSet(_stubs, StubKey(frame[t].op), stub)
    /\ frame' = [frame EXCEPT ![t].pc = "stub_return"]
    /\ UNCHANGED << inputVars, phase, _grpc_channel, _host, _credentials,
                    channelLog, createAttempts, certCalls, returns,
                    chanReturns, errors, nCalls, nFailures, invocations >>

\* return self._stubs["<method>"]
StubReturn(t) ==
    /\ frame[t].pc = "stub_return"
    /\ returns' = Append(returns, [op |-> frame[t].op,
                                   val |-> _stubs[StubKey(frame[t].op)]])
    /\ frame' = [frame EXCEPT ![t] = IdleFrame]
    /\ UNCHANGED << inputVars, instanceVars, channelLog, createAttempts,
                    stubLog, certCalls, chanReturns, errors, nCalls,
                    nFailures, invocations >>

(***************************************************************************)
(* Calling a stub an accessor returned.  The call is carried out by the    *)
(* callable that unary_unary built, not by code of the transport.          *)
(***************************************************************************)
\* the status the remote service answers with
StatusCodes == {"OK", "FAILED_PRECONDITION"}

\* what a response decoder makes of a successful response
Decode(response_deserializer) ==
    IF response_deserializer = "empty.Empty.FromString"
    THEN [kind |-> "empty"]
    ELSE [kind |-> "message", decoder |-> response_deserializer]

\* a retrying callable: a failed exchange is followed by a second one
Exchanges_RetryOnFailure(stub, status) ==
    LET one == [path |-> stub.path,
                encoder |-> stub.request_serializer,
                status |-> status]
    IN  IF status = "OK" THEN << one >> ELSE << one, one >>

\* the exchanges with the remote service one call of the stub makes
Exchanges(stub, status) ==
    << [path |-> stub.path,
        encoder |-> stub.request_serializer,
        status |-> status] >>

\* what the caller of the stub gets: the decoded response or the error
Outcome(stub, status) ==
    IF status = "OK"
    THEN [kind |-> "value", value |-> Decode(stub.response_deserializer)]
    ELSE [kind |-> "error", code |-> status]

\* a caller calls a stub it was handed with a request
Invoke(t) ==
    /\ phase = "ready"
    /\ MayCall(t)
    /\ nCalls < MaxCalls
    /\ nCalls' = nCalls + 1
    /\ \E i \in DOMAIN returns, status \in StatusCodes :
         LET stub == returns[i].val
         IN  invocations' = invocations \cup
                 { [op |-> returns[i].op,
                    stub |-> stub,
                    wire |-> Exchanges(stub, status),
                    outcome |-> Outcome(stub, status)] }
    /\ UNCHANGED << inputVars, instanceVars, frame, channelLog,
                    createAttempts, stubLog, certCalls, returns, chanReturns,
                    errors, nFailures >>

(***************************************************************************)
(* Specifications.                                                         *)
(***************************************************************************)
Step(t) ==
    \/ GrpcChannelCall(t)
    \/ \E m \in exercised : StubCall(t, m)
    \/ StubMiss(t)
    \/ ChanCreateOk(t)
    \/ ChanCreateRaise(t)
    \/ ChanReturn(t)
    \/ StubStore(t)
    \/ StubReturn(t)
    \/ Invoke(t)

Next == Construct \/ \E t \in Threads : Step(t)

\* callers may interleave freely
Spec == Init /\ [][Next]_vars

\* calls are made one after the other
SpecSeq == InitSeq /\ [][Next]_vars

(***************************************************************************)
(* Properties.                                                             *)
(***************************************************************************)
\* the stubs the accessor of method m has returned so far
HandedOut(m) ==
    { returns[i].val : i \in { j \in DOMAIN returns : returns[j].op = m } }

\* the stubs built so far for method m
BuiltFor(m) ==
    { i \in DOMAIN stubLog : stubLog[i].path = MethodRegistry[m].path }

\* C1: when accessor calls are made one after the other, any two calls of
\* the same method accessor return the identical stub (same identity, not
\* a stub built again), so at most one stub per method is handed out.
C1_SameStubEveryCall ==
    \A i, j \in DOMAIN returns :
        returns[i].op = returns[j].op =>
            /\ returns[i].val = returns[j].val
            /\ returns[i].val.id = returns[j].val.id
            /\ Cardinality(BuiltFor(returns[i].op)) = 1

\* two calls of the same method accessor have returned
C1_Witness ==
    \E i, j \in DOMAIN returns : i < j /\ returns[i].op = returns[j].op

\* C2: constructed with an explicit channel, grpc_channel returns exactly
\* that channel after any sequence of accessor calls, the transport never
\* creates a channel, and the credentials argument does not reach the
\* instance: the constructor records False in its place.
C2_ExplicitChannelKept ==
    (phase = "ready" /\ args.channel # NoChannel) =>
        /\ _grpc_channel = args.channel
        /\ \A r \in chanReturns : r.val = args.channel /\ ~r.created
        /\ \A i \in DOMAIN stubLog : stubLog[i].channel = args.channel
        /\ channelLog = << >>
        /\ createAttempts = 0
        /\ _credentials = FalseCredentials
        /\ _credentials # args.credentials

\* an explicit channel came with credentials, and both grpc_channel and a
\* stub accessor have returned
C2_Witness ==
    /\ phase = "ready"
    /\ args.channel # NoChannel
    /\ args.credentials = "credA"
    /\ \E r \in chanReturns : r.op = GrpcChannelOp
    /\ returns # << >>

\* C3: constructed with host and credentials only, no channel exists and no
\* channel creation has been attempted as long as no accessor has been
\* called; construction alone creates nothing.
C3_LazyUntilFirstAccess ==
    (args.channel = NoChannel /\ args.api_mtls_endpoint = NoEndpoint
       /\ nCalls = 0) =>
        /\ _grpc_channel = Unset
        /\ channelLog = << >>
        /\ createAttempts = 0
        /\ stubLog = << >>

\* the constructor has run with host and credentials only, no accessor yet
C3_Witness ==
    /\ phase = "ready"
    /\ args.channel = NoChannel
    /\ args.api_mtls_endpoint = NoEndpoint
    /\ args.credentials = "credA"
    /\ nCalls = 0

\* C4: concurrent first accesses to one method accessor build the stub of
\* that method only once, and the cache holds exactly one entry for it.
C4_StubBuiltOnce ==
    \A m \in exercised :
        /\ Cardinality(BuiltFor(m)) <= 1
        /\ BuiltFor(m) # {} => StubKey(m) \in DOMAIN _stubs

\* C5: under every interleaving, all callers of one method accessor receive
\* the same stub; no two callers are returned distinct stubs.
C5_CallersShareStub ==
    \A m \in exercised : Cardinality(HandedOut(m)) <= 1

\* C6: the transport creates a channel at most once per instance, under any
\* interleaving of grpc_channel and stub accessor calls, and the stored
\* channel stays the one that was established first.
C6_ChannelCreatedOnce ==
    /\ Len(channelLog) <= 1
    /\ _grpc_channel.kind = "created" => _grpc_channel = channelLog[1]

\* C7: every evaluation of grpc_channel that begins after the first channel
\* creation has completed returns that first channel and creates none.
C7_ChannelIdempotent ==
    \A r \in chanReturns :
        r.late => (r.val = channelLog[1] /\ ~r.created)

\* a port: a colon followed by one or more digits up to the end
IsDigit(c) == c \in {"0", "1", "2", "3", "4", "5", "6", "7", "8", "9"}

CarriesPort(s) ==
    \E i \in DOMAIN s :
        /\ s[i] = ":"
        /\ i < Len(s)
        /\ \A j \in (i + 1)..Len(s) : IsDigit(s[j])

\* C8: in the mutual-TLS path the target of the created channel is the
\* endpoint unchanged when it carries a port, and the endpoint followed by
\* ":443" when it carries none.
C8_DefaultPortAppended ==
    (args.channel = NoChannel /\ args.api_mtls_endpoint # NoEndpoint) =>
        \A i \in DOMAIN channelLog :
            channelLog[i].target =
                IF CarriesPort(args.api_mtls_endpoint)
                THEN args.api_mtls_endpoint
                ELSE args.api_mtls_endpoint \o <<":", "4", "4", "3">>

C10_EndpointOverridesHost ==
    (phase = "ready" /\ args.api_mtls_endpoint # NoEndpoint) =>
        _host = MtlsHost(args.api_mtls_endpoint)

\* the accessors of the delete-style methods
DeleteStyle ==
    {"delete_reservation", "delete_capacity_commitment", "delete_assignment"}

\* the decoder of the empty sentinel
EmptyDecoder == "empty.Empty.FromString"

\* C11: the stubs of delete_reservation, delete_capacity_commitment and
\* delete_assignment are bound to the decoder of the empty sentinel, so a
\* successful call yields the sentinel and never a typed value; the stub of
\* every other method is bound to a typed decoder and yields a message.
C11_DeleteYieldsEmpty ==
    /\ \A m \in Methods :
           MethodRegistry[m].key \in DeleteStyle <=>
               MethodRegistry[m].response_deserializer = EmptyDecoder
    /\ phase = "ready" =>
         \A k \in DOMAIN _stubs :
             (k \in DeleteStyle) <=> (_stubs[k].response_deserializer = EmptyDecoder)
    /\ \A i \in DOMAIN returns :
           (StubKey(returns[i].op) \in DeleteStyle) <=>
               (returns[i].val.response_deserializer = EmptyDecoder)
    /\ \A c \in invocations :
           c.outcome.kind = "value" =>
               IF StubKey(c.op) \in DeleteStyle
               THEN c.outcome.value = [kind |-> "empty"]
               ELSE c.outcome.value.kind = "message"

\* the stub of a delete-style method has been called with success, and the
\* stub of another method has been handed out
C11_Witness ==
    /\ \E c \in invocations :
           StubKey(c.op) \in DeleteStyle /\ c.outcome.kind = "value"
    /\ \E i \in DOMAIN returns : StubKey(returns[i].op) \notin DeleteStyle

\* every call made so far: one exchange, on the path of the stub, and the
\* caller got the decoded response or an error with the remote's status
ExchangesMatchOutcomes ==
    \A c \in invocations :
        /\ Len(c.wire) = 1
        /\ c.wire[1].path = c.stub.path
        /\ c.wire[1].status # "OK" =>
               c.outcome = [kind |-> "error", code |-> c.wire[1].status]
        /\ c.wire[1].status = "OK" => c.outcome.kind = "value"

\* C12: every call of a stub makes exactly one exchange with the remote
\* service; when the remote answers with a failure status the caller gets
\* an error with that status, the call is neither repeated nor translated,
\* and it leaves the cache, the channel and the other attributes of the
\* transport as they were.
C12_OneExchangePerCall ==
    /\ []ExchangesMatchOutcomes
    /\ [][invocations' # invocations =>
             UNCHANGED << instanceVars, channelLog, createAttempts,
                          stubLog >>]_vars

\* a stub of get_reservation was called and the remote answered
\* FAILED_PRECONDITION
C12_Witness ==
    \E c \in invocations :
        /\ StubKey(c.op) = "get_reservation"
        /\ c.outcome = [kind |-> "error", code |-> "FAILED_PRECONDITION"]

\* C13: when construction in mutual-TLS mode fails, because the certificate
\* material cannot be resolved or the channel cannot be built, the error
\* reaches the caller, no channel is recorded, no stub cache is established,
\* nothing was tried twice, and the instance is used for nothing: a failed
\* construction happens only in that mode.
C13_FailedConstructionLeavesNothing ==
    phase = "failed" =>
        /\ args.channel = NoChannel
        /\ args.api_mtls_endpoint # NoEndpoint
        /\ Len(errors) = 1
        /\ errors[1].op = -1
        /\ errors[1].error \in {"cert_error", "channel_error"}
        /\ _grpc_channel = Unset
        /\ _stubs = Unset
        /\ channelLog = << >>
        /\ createAttempts =
               (IF errors[1].error = "channel_error" THEN 1 ELSE 0)
        /\ certCalls <= 1
        /\ stubLog = << >>
        /\ returns = << >>
        /\ chanReturns = {}
        /\ nCalls = 0
        /\ \A t \in Threads : frame[t] = IdleFrame

\* a construction that failed when it built the channel, after the callback
\* had delivered the certificate
C13_Witness ==
    /\ phase = "failed"
    /\ errors[1].error = "channel_error"
    /\ args.client_cert_source # NoCertSource

\* C14: client_cert_source is called once, during construction, exactly
\* when no channel but an api_mtls_endpoint and the callback are supplied;
\* in that mode without a callback the channel gets the default SSL
\* credentials; in every other case the callback is never called, also not
\* by later accessor calls.
C14_CertSourceCalledOnce ==
    /\ certCalls =
          (IF /\ phase # "new"
              /\ args.channel = NoChannel
              /\ args.api_mtls_endpoint # NoEndpoint
              /\ args.client_cert_source # NoCertSource
           THEN 1 ELSE 0)
    /\ ( /\ phase = "ready"
         /\ args.channel = NoChannel
         /\ args.api_mtls_endpoint # NoEndpoint ) =>
            /\ Len(channelLog) >= 1
            /\ channelLog[1].ssl_credentials =
                   (IF args.client_cert_source = NoCertSource
                    THEN DefaultSslCredentials
                    ELSE CallbackSslCredentials)

\* the callback was called by the constructor, and accessors were called
\* afterwards
C14_Witness ==
    /\ phase = "ready"
    /\ certCalls = 1
    /\ Len(returns) >= 1
    /\ chanReturns # {}

\* C15: an instance constructed in the mutual-TLS path has its channel from
\* the constructor on: exactly one channel was created, to the address
\* derived from api_mtls_endpoint (not to host) and with the resolved SSL
\* credentials; every grpc_channel access returns it, every stub is built
\* on it, and no access creates a channel.
C15_MtlsChannelEager ==
    ( /\ phase = "ready"
      /\ args.channel = NoChannel
      /\ args.api_mtls_endpoint # NoEndpoint ) =>
        /\ Len(channelLog) = 1
        /\ createAttempts = 1
        /\ channelLog[1].target = MtlsHost(args.api_mtls_endpoint)
        /\ channelLog[1].target # args.host
        /\ channelLog[1].ssl_credentials =
               MtlsSslCredentials(args.client_cert_source)
        /\ channelLog[1].ssl_credentials # NoSslCredentials
        /\ _grpc_channel = channelLog[1]
        /\ \A r \in chanReturns : r.val = channelLog[1] /\ ~r.created
        /\ \A i \in DOMAIN stubLog : stubLog[i].channel = channelLog[1]
        /\ \A t \in Threads : frame[t].pc # "chan_create"

\* on a mutual-TLS instance grpc_channel was read and a stub was handed out
C15_Witness ==
    /\ phase = "ready"
    /\ args.channel = NoChannel
    /\ args.api_mtls_endpoint # NoEndpoint
    /\ \E r \in chanReturns : r.op = GrpcChannelOp
    /\ Len(returns) >= 1

\* C16: in the lazy path every channel the instance creates goes to the
\* host given to the constructor, with the credentials given to the
\* constructor and without SSL credentials, whichever accessor or
\* grpc_channel access triggered the creation.
C16_LazyChannelUsesArguments ==
    ( /\ args.channel = NoChannel
      /\ args.api_mtls_endpoint = NoEndpoint ) =>
        /\ \A i \in DOMAIN channelLog :
               /\ channelLog[i].target = args.host
               /\ channelLog[i].credentials = args.credentials
               /\ channelLog[i].ssl_credentials = NoSslCredentials
        /\ \A r \in chanReturns :
               /\ r.val.target = args.host
               /\ r.val.credentials = args.credentials

\* a lazy instance that was given credentials created its channel in a
\* stub accessor, and in another run would have done so in grpc_channel
C16_Witness ==
    /\ args.channel = NoChannel
    /\ args.api_mtls_endpoint = NoEndpoint
    /\ args.credentials # NoCredentials
    /\ Len(channelLog) = 1
    /\ \E r \in chanReturns : r.created /\ r.op \in Methods

\* frame f is inside a call of a method accessor that has returned before
InLaterCall(f) ==
    /\ f.pc # "idle"
    /\ f.op \in Methods
    /\ HandedOut(f.op) # {}

\* C17: once the accessor of a method has returned, no step of a later call
\* of that accessor, made one after the other, builds a stub, creates a
\* channel, or changes the cache or the stored channel.
C17_LaterCallsNoSetup ==
    [][(\E t \in Threads : InLaterCall(frame[t]) \/ InLaterCall(frame'[t]))
          => UNCHANGED << _stubs, _grpc_channel, stubLog, channelLog,
                          createAttempts, certCalls >>]_vars

\* a later call of an accessor is about to return, and one stub exists
C17_Witness ==
    /\ \E t \in Threads :
           InLaterCall(frame[t]) /\ frame[t].pc = "stub_return"
    /\ Len(stubLog) = 1

\* C18: every channel the transport creates, in the constructor or on first
\* access, is created with the scopes of the class, whatever the
\* constructor arguments and whichever accessor led to the creation.
C18_FixedScopes ==
    /\ \A i \in DOMAIN channelLog : channelLog[i].scopes = AUTH_SCOPES
    /\ _grpc_channel.kind = "created" => _grpc_channel.scopes = AUTH_SCOPES
    /\ \A r \in chanReturns :
           r.val.kind = "created" => r.val.scopes = AUTH_SCOPES

\* a channel created on first access by an instance that was given
\* credentials has been returned by grpc_channel
C18_Witness ==
    \E r \in chanReturns :
        /\ r.op = GrpcChannelOp
        /\ r.created
        /\ r.val.credentials # NoCredentials

\* C19: the method accessors use pairwise distinct cache keys and pairwise
\* distinct paths; every stub an accessor returned is bound to the path of
\* that accessor's method and was built for it, and every cached stub lies
\* under the key of the method whose path it carries.
C19_OwnPathPerAccessor ==
    /\ \A m, n \in Methods :
           m # n => /\ MethodRegistry[m].key # MethodRegistry[n].key
                    /\ MethodRegistry[m].path # MethodRegistry[n].path
    /\ \A i \in DOMAIN returns :
           /\ returns[i].val.path = MethodRegistry[returns[i].op].path
           /\ returns[i].val.id \in BuiltFor(returns[i].op)
    /\ phase = "ready" =>
           \A m \in Methods :
               MethodRegistry[m].key \in DOMAIN _stubs =>
                   _stubs[MethodRegistry[m].key].path = MethodRegistry[m].path

\* the accessors of two different methods have returned
C19_Witness ==
    \E i, j \in DOMAIN returns :
        /\ returns[i].op # returns[j].op
        /\ returns[i].val.path # returns[j].val.path

\* C20: in every state, also with concurrent first accesses, all cached
\* stubs are bound to the channel grpc_channel returns at that moment, and
\* a non-empty cache means the channel is established.
C20_StubsOnCurrentChannel ==
    phase = "ready" =>
        /\ \A k \in DOMAIN _stubs : _stubs[k].channel = _grpc_channel
        /\ DOMAIN _stubs # {} => _grpc_channel # Unset

\* the errors raised by lazy channel creation so far
LazyErrors == { i \in DOMAIN errors : errors[i].op # -1 }

\* C21: when the lazy creation of the channel fails inside an accessor or
\* inside grpc_channel, the caller of that accessor gets the error, the
\* call has made one creation attempt, and the instance is as before: no
\* channel recorded, no stub built or cached, nothing returned; the next
\* call that needs the channel therefore attempts the creation again.
C21_LazyFailureLeavesNothing ==
    /\ [](phase = "ready" =>
            /\ createAttempts = Len(channelLog) + Cardinality(LazyErrors)
            /\ \A i \in LazyErrors : errors[i].error = "channel_error")
    /\ [][(phase = "ready" /\ errors' # errors) =>
             \E t \in Threads :
                 /\ frame[t].pc = "chan_create"
                 /\ _grpc_channel = Unset
                 /\ errors' = Append(errors, [op |-> frame[t].op,
                                              error |-> "channel_error"])
                 /\ createAttempts' = createAttempts + 1
                 /\ frame'[t] = IdleFrame
                 /\ UNCHANGED << instanceVars, channelLog, stubLog,
                                 returns, chanReturns >>]_vars
    /\ [][(\E t \in Threads :
               /\ frame[t].pc \notin {"chan_create", "chan_return"}
               /\ frame'[t].pc \in {"chan_create", "chan_return"})
          => (\A t \in Threads :
                 ( /\ frame'[t] # frame[t]
                   /\ _grpc_channel = Unset ) =>
                        frame'[t].pc = "chan_create")]_vars

\* the creation failed inside a stub accessor, and a later call attempted
\* it again and got the channel
C21_Witness ==
    /\ \E i \in LazyErrors : errors[i].op \in Methods
    /\ createAttempts = 2
    /\ Len(channelLog) = 1

\* C22: a step that changes the cache is the store of an accessor that
\* missed: it adds the entry of that accessor's method, which was not
\* there, and leaves every other entry as it was; so with calls made one
\* after the other the cache only grows, and it holds one entry for each
\* stub built and only for methods that were accessed.
C22_MissAddsOneEntry ==
    /\ [](phase = "ready" =>
            /\ Cardinality(DOMAIN _stubs) = Len(stubLog)
            /\ \A k \in DOMAIN _stubs :
                   \E m \in exercised : k = MethodRegistry[m].key)
    /\ [][(phase = "ready" /\ _stubs' # _stubs) =>
             \E t \in Threads :
                 LET k == MethodRegistry[frame[t].op].key
                 IN  /\ frame[t].pc = "stub_make"
                     /\ k \notin DOMAIN _stubs
                     /\ DOMAIN _stubs' = DOMAIN _stubs \cup {k}
                     /\ \A x \in DOMAIN _stubs : _stubs'[x] = _stubs[x]
                     /\ _stubs'[k].path = MethodRegistry[frame[t].op].path]_vars

\* two accessors have missed and stored, and a third call found its entry
C22_Witness ==
    /\ phase = "ready"
    /\ Cardinality(DOMAIN _stubs) = 2
    /\ Len(returns) = 3

====
